---- MODULE Spec2Model ----
(***************************************************************************)
(* Model of the transcript statistics pipeline: Scripts/get_stats.py (the  *)
(* tokenizer, the pause-marker counter, the per-speaker aggregator and the *)
(* dataset driver) and Scripts/extract_par.py (the participant extractor). *)
(*                                                                         *)
(* A Python str is a sequence of one-character strings.  A regular         *)
(* expression R is an operator R(s, i): the length of the match of R that  *)
(* starts at position i of s, 0 when R does not match there (none of the   *)
(* four expressions of the program matches the empty string); re_sub and   *)
(* re_findall take the expression by its name.                             *)
(***************************************************************************)
EXTENDS Integers, Sequences, FiniteSets, TLC

\* ------------------------------------------------------------------ bounds
MaxLen == 5      \* longest raw utterance drawn in SpecTok
MaxLines == 2    \* most transcript lines in the file system of one run

\* -------------------------------------------------------------- characters
LowerLetters ==
    {"a","b","c","d","e","f","g","h","i","j","k","l","m",
     "n","o","p","q","r","s","t","u","v","w","x","y","z"}

UpperLetters ==
    {"A","B","C","D","E","F","G","H","I","J","K","L","M",
     "N","O","P","Q","R","S","T","U","V","W","X","Y","Z"}

Digits == {"0","1","2","3","4","5","6","7","8","9"}

\* the characters \s matches and str.strip() strips
Whitespace == {" ", "\t", "\n", "\r"}

UpperSeq ==
    <<"A","B","C","D","E","F","G","H","I","J","K","L","M",
      "N","O","P","Q","R","S","T","U","V","W","X","Y","Z">>

LowerSeq ==
    <<"a","b","c","d","e","f","g","h","i","j","k","l","m",
      "n","o","p","q","r","s","t","u","v","w","x","y","z">>

\* a mutant of lower_char: lowercasing forgotten
lower_char_id(c) == c

\* str.lower() on one character
lower_char(c) ==
    IF c \in UpperLetters
    THEN LowerSeq[CHOOSE k \in 1..26 : UpperSeq[k] = c]
    ELSE c

\* str.lower()
lower(s) == [i \in 1..Len(s) |-> lower_char(s[i])]

Range(s) == {s[i] : i \in 1..Len(s)}

\* s[i:]
From(s, i) == SubSeq(s, i, Len(s))

\* str.startswith(prefix)
startswith(s, prefix) ==
    /\ Len(s) >= Len(prefix)
    /\ SubSeq(s, 1, Len(prefix)) = prefix

RECURSIVE lstrip(_)
\* str.lstrip()
lstrip(s) ==
    IF s # <<>> /\ Head(s) \in Whitespace THEN lstrip(Tail(s)) ELSE s

RECURSIVE rstrip(_)
\* str.rstrip()
rstrip(s) ==
    IF s # <<>> /\ s[Len(s)] \in Whitespace
    THEN rstrip(SubSeq(s, 1, Len(s) - 1))
    ELSE s

\* str.strip()
strip(s) == rstrip(lstrip(s))

RECURSIVE split(_, _)
\* str.split(sep) for a one-character sep: every sep separates, so two
\* adjacent seps give an empty field
split(s, sep) ==
    IF sep \notin Range(s) THEN <<s>>
    ELSE LET k == CHOOSE k \in 1..Len(s) :
                      s[k] = sep /\ \A j \in 1..(k - 1) : s[j] # sep
         IN  <<SubSeq(s, 1, k - 1)>> \o split(From(s, k + 1), sep)

RECURSIVE join(_, _)
\* sep.join(parts)
join(sep, parts) ==
    IF parts = <<>> THEN <<>>
    ELSE IF Len(parts) = 1 THEN parts[1]
    ELSE parts[1] \o sep \o join(sep, Tail(parts))

RECURSIVE splitlines(_)
\* str.splitlines(): a line ends at a line boundary; no empty last line
\* after a final boundary.  "\r\n" is one boundary.
splitlines(text) ==
    IF text = <<>> THEN <<>>
    ELSE IF \A j \in 1..Len(text) : text[j] \notin {"\n", "\r"} THEN <<text>>
    ELSE LET k == CHOOSE k \in 1..Len(text) :
                      /\ text[k] \in {"\n", "\r"}
                      /\ \A j \in 1..(k - 1) : text[j] \notin {"\n", "\r"}
             n == IF text[k] = "\r" /\ k < Len(text) /\ text[k + 1] = "\n"
                  THEN k + 2 ELSE k + 1
         IN  <<SubSeq(text, 1, k - 1)>> \o splitlines(From(text, n))

\* ------------------------------------------------------ regular expressions
RECURSIVE RunLen(_, _, _)
\* length of the longest run of characters of class C that starts at s[i]
RunLen(s, i, C) ==
    IF i <= Len(s) /\ s[i] \in C THEN 1 + RunLen(s, i + 1, C) ELSE 0

\* a mutant of PAUSE_MARKER_RE: \(\.\) , the quantifier forgotten
PAUSE_MARKER_RE_single(s, i) ==
    IF i + 2 <= Len(s) /\ s[i] = "(" /\ s[i + 1] = "." /\ s[i + 2] = ")"
    THEN 3 ELSE 0

\* \(\.{1,}\)
PAUSE_MARKER_RE(s, i) ==
    IF i <= Len(s) /\ s[i] = "("
    THEN LET d == RunLen(s, i + 1, {"."})
         IN  IF d >= 1 /\ i + d + 1 <= Len(s) /\ s[i + d + 1] = ")"
             THEN d + 2 ELSE 0
    ELSE 0

\* \([^)]*\) : from "(" to the first ")" after it
PAREN_ANNOT_RE(s, i) ==
    IF i <= Len(s) /\ s[i] = "("
    THEN LET d == RunLen(s, i + 1, Range(s) \ {")"})
         IN  IF i + d + 1 <= Len(s) THEN d + 2 ELSE 0
    ELSE 0

\* the characters [a-z0-9'\s] keeps
WordOrSpace == LowerLetters \cup Digits \cup {"'"} \cup Whitespace

\* [^a-z0-9'\s]+
NONWORD_RE(s, i) == RunLen(s, i, Range(s) \ WordOrSpace)

\* \s+
SPACES_RE(s, i) == RunLen(s, i, Whitespace)

\* R.match(s, i) for the compiled expression named R: the length of the match
re_match(R, s, i) ==
    CASE R = "PAUSE_MARKER_RE" -> PAUSE_MARKER_RE(s, i)
      [] R = "PAREN_ANNOT_RE" -> PAREN_ANNOT_RE(s, i)
      [] R = "NONWORD_RE" -> NONWORD_RE(s, i)
      [] R = "SPACES_RE" -> SPACES_RE(s, i)

RECURSIVE re_sub(_, _, _, _)
\* R.sub(repl, s): scan from position i, replace each leftmost match
re_sub(R, repl, s, i) ==
    IF i > Len(s) THEN <<>>
    ELSE IF re_match(R, s, i) > 0
         THEN repl \o re_sub(R, repl, s, i + re_match(R, s, i))
    ELSE <<s[i]>> \o re_sub(R, repl, s, i + 1)

RECURSIVE re_findall(_, _, _)
\* R.findall(s): the leftmost non-overlapping matches, from position i
re_findall(R, s, i) ==
    IF i > Len(s) THEN <<>>
    ELSE IF re_match(R, s, i) > 0
         THEN <<SubSeq(s, i, i + re_match(R, s, i) - 1)>>
              \o re_findall(R, s, i + re_match(R, s, i))
    ELSE re_findall(R, s, i + 1)

\* ---------------------------------------------------------- get_stats.py
FILLED_PAUSES ==
    { <<"u","h">>, <<"u","m">>, <<"e","r">>, <<"a","h">>, <<"h","m","m">>,
      <<"m","m">>, <<"u","h","m">>, <<"u","m","m">> }

count_pause_markers(raw_line) == Len(re_findall("PAUSE_MARKER_RE", raw_line, 1))

\* a mutant of strip_annotations: the pause-marker pattern used for stripping
strip_annotations_pause_only(raw_line) ==
    re_sub("PAUSE_MARKER_RE", <<" ">>, raw_line, 1)

\* step 1 of clean_and_tokenize: PAREN_ANNOT_RE.sub(" ", raw_line)
strip_annotations(raw_line) == re_sub("PAREN_ANNOT_RE", <<" ">>, raw_line, 1)

\* a mutant of collapse_whitespace: strip() without the \s+ substitution
collapse_whitespace_strip_only(s) == strip(s)

\* step 4 of clean_and_tokenize: re.sub(r"\s+", " ", s).strip()
collapse_whitespace(s) == strip(re_sub("SPACES_RE", <<" ">>, s, 1))

clean_and_tokenize(raw_line) ==
    LET no_paren == strip_annotations(raw_line)
        s1 == lower(no_paren)
        s2 == re_sub("NONWORD_RE", <<" ">>, s1, 1)
        s3 == collapse_whitespace(s2)
    IN  IF s3 = <<>> THEN <<>> ELSE split(s3, " ")

\* the prefix f"*{speaker_code}:" as characters
prefix_of(speaker_code) ==
    IF speaker_code = "PAR" THEN <<"*","P","A","R",":">>
    ELSE <<"*","I","N","V",":">>

\* a mutant of extract_main_tier_lines: blank content dropped, as
\* extract_par_lines does
extract_main_tier_lines_nonblank(text, speaker_code) ==
    LET ls == splitlines(text)
        Keep(l) == /\ startswith(lstrip(l), prefix_of(speaker_code))
                   /\ strip(From(lstrip(l), 6)) # <<>>
        Content(l) == strip(From(lstrip(l), 6))
        kept == SelectSeq(ls, Keep)
    IN  [i \in 1..Len(kept) |-> Content(kept[i])]

extract_main_tier_lines(text, speaker_code) ==
    LET ls == splitlines(text)
        prefix == prefix_of(speaker_code)
        Keep(l) == startswith(lstrip(l), prefix)
        Content(l) == strip(From(lstrip(l), Len(prefix) + 1))
        kept == SelectSeq(ls, Keep)
    IN  [i \in 1..Len(kept) |-> Content(kept[i])]

\* ---- SpeakerStats and its derived metrics
\* Path.name
PathName(p) == <<p.stem, p.suffix>>

\* SpeakerStats(file=file_path.name, speaker=speaker_code)
SpeakerStats(file, speaker) ==
    [file |-> file, speaker |-> speaker, utterances |-> 0, tokens |-> 0,
     types |-> 0, filled_pauses |-> 0, pause_markers |-> 0]

ZeroDivisionError == "ZeroDivisionError"

\* the float 0.0, and a quotient n/d as the pair <<n, d>>
Zero == <<0, 1>>

\* Python's true division
Div(n, d) == IF d = 0 THEN ZeroDivisionError ELSE <<n, d>>

\* q * 100.0
Times100(q) == IF q = ZeroDivisionError THEN q ELSE <<q[1] * 100, q[2]>>

mean_utt_len(r) ==
    IF r.utterances # 0 THEN Div(r.tokens, r.utterances) ELSE Zero

\* a mutant of ttr: the guard on tokens forgotten
ttr_unguarded(r) == Div(r.types, r.tokens)

ttr(r) == IF r.tokens # 0 THEN Div(r.types, r.tokens) ELSE Zero

filled_pauses_per_100(r) ==
    IF r.tokens # 0 THEN Times100(Div(r.filled_pauses, r.tokens)) ELSE Zero

pause_markers_per_100(r) ==
    IF r.tokens # 0 THEN Times100(Div(r.pause_markers, r.tokens)) ELSE Zero

\* f"{x:.4f}" as the number of 1/10000 units, rounded to nearest (an exact
\* tie needs a denominator that is a multiple of 32, above the counts here)
Fmt4(q) ==
    LET n == q[1] * 10000
        d == q[2]
        lo == n \div d
        r2 == 2 * (n % d)
    IN  IF r2 < d THEN lo
        ELSE IF r2 > d THEN lo + 1
        ELSE IF lo % 2 = 0 THEN lo ELSE lo + 1

\* ---- the body of the loop of compute_stats_for_speaker (lines 103-118)
RECURSIVE count_filled(_)
\* the number of tokens t of toks with t in FILLED_PAUSES
count_filled(toks) ==
    IF toks = <<>> THEN 0
    ELSE (IF Head(toks) \in FILLED_PAUSES THEN 1 ELSE 0) + count_filled(Tail(toks))

\* a mutant of loop_body: a filled pause is not counted as a token
loop_body_fillers_not_tokens(st, vocab, line) ==
    LET toks == clean_and_tokenize(line)
        s1 == [st EXCEPT !.utterances = @ + 1,
                         !.pause_markers = @ + count_pause_markers(line)]
    IN  IF toks = <<>>
        THEN [stats |-> s1, vocab |-> vocab, toks |-> toks]
        ELSE [stats |-> [s1 EXCEPT !.tokens = @ + Len(toks) - count_filled(toks),
                                   !.filled_pauses = @ + count_filled(toks)],
              vocab |-> vocab \cup Range(toks),
              toks |-> toks]

loop_body(st, vocab, line) ==
    LET toks == clean_and_tokenize(line)
        s1 == [st EXCEPT !.utterances = @ + 1,
                         !.pause_markers = @ + count_pause_markers(line)]
    IN  IF toks = <<>>
        THEN [stats |-> s1, vocab |-> vocab, toks |-> toks]
        ELSE [stats |-> [s1 EXCEPT !.tokens = @ + Len(toks),
                                   !.filled_pauses = @ + count_filled(toks)],
              vocab |-> vocab \cup Range(toks),
              toks |-> toks]

\* ---- write_csv
CSV_HEADER ==
    <<"file", "speaker", "utterances", "tokens", "mean_utterance_length",
      "ttr", "filled_pauses_per_100_tokens", "pause_markers_per_100_tokens",
      "filled_pauses_count", "pause_markers_count", "types">>

\* whether formatting row r raises
RowRaises(r) ==
    ZeroDivisionError \in
        {mean_utt_len(r), ttr(r), filled_pauses_per_100(r), pause_markers_per_100(r)}

\* the list passed to w.writerow for row r
CsvRow(r) ==
    <<r.file, r.speaker, r.utterances, r.tokens,
      Fmt4(mean_utt_len(r)), Fmt4(ttr(r)),
      Fmt4(filled_pauses_per_100(r)), Fmt4(pause_markers_per_100(r)),
      r.filled_pauses, r.pause_markers, r.types>>

\* the rows written before the first row that raises (all, when none does)
GoodPrefix(rows) ==
    LET bad == {i \in 1..Len(rows) : RowRaises(rows[i])}
        n == IF bad = {} THEN Len(rows)
             ELSE (CHOOSE i \in bad : \A j \in bad : i <= j) - 1
    IN  SubSeq(rows, 1, n)

\* the speaker roles in the order main appends their rows
SPEAKERS_swapped == <<"INV", "PAR">>

SPEAKERS == <<"PAR", "INV">>

\* --------------------------------------------------------- extract_par.py
extract_par_lines(text) ==
    LET ls == splitlines(text)
        Keep(l) == /\ startswith(lstrip(l), <<"*","P","A","R",":">>)
                   /\ strip(From(lstrip(l), 6)) # <<>>
        kept == SelectSeq(ls, Keep)
    IN  [i \in 1..Len(kept) |-> strip(From(lstrip(kept[i]), 6))]

\* "\n".join(par_lines) + ("\n" if par_lines else "")
ParText(par_lines) ==
    join(<<"\n">>, par_lines) \o (IF par_lines # <<>> THEN <<"\n">> ELSE <<>>)

\* ------------------------------------------------------------ file system
\* A path is [parent, stem, suffix]; parent "" is the dataset folder itself,
\* parent "s" a subfolder of it.
A_CHA == [parent |-> "", stem |-> "a", suffix |-> ".cha"]

C_CHA == [parent |-> "s", stem |-> "c", suffix |-> ".cha"]

N_TXT == [parent |-> "", stem |-> "n", suffix |-> ".txt"]

U_CHA == [parent |-> "", stem |-> "u", suffix |-> ".CHA"]

\* the dataset path when it is a folder, or does not exist
DATASET == [parent |-> "", stem |-> "dataset", suffix |-> ""]

\* the files a dataset folder may hold, and the files a run may name directly
DirNames == {A_CHA, C_CHA, N_TXT}

FileNames == {A_CHA, N_TXT, U_CHA}

\* Path.suffix.lower()
suffix_lower(p) == IF p.suffix = ".CHA" THEN ".cha" ELSE p.suffix

\* the order sorted() puts the paths of a folder in: by parts, so a file of
\* the folder sorts by its name ("a.cha" before "n.txt") and a file of
\* subfolder "s" after both
PathRank(p) ==
    IF p.parent = "s" THEN 3
    ELSE IF p.stem = "a" THEN 1
    ELSE 2

\* sorted(S)
sorted(S) ==
    CHOOSE q \in [1..Cardinality(S) -> S] :
        \A i, j \in 1..Cardinality(S) : i < j => PathRank(q[i]) < PathRank(q[j])

\* root.rglob("*.cha") / root.glob("*.cha") on the folder holding files of S
glob_cha(S, rec) ==
    {p \in S : p.suffix = ".cha" /\ (rec \/ p.parent = "")}

\* ---- transcript lines the runs draw their files from
\* "*PAR: uh (..) I (.) lost my keys yesterday ."
LineKeys ==
    <<"*","P","A","R",":"," ","u","h"," ","(",".",".",")"," ","I"," ","(",
      ".",")"," ","l","o","s","t"," ","m","y"," ","k","e","y","s"," ","y",
      "e","s","t","e","r","d","a","y"," ",".">>

\* "*INV: (.) um (..) okay"
LineOkay ==
    <<"*","I","N","V",":"," ","(",".",")"," ","u","m"," ","(",".",".",")",
      " ","o","k","a","y">>

\* "*PAR: (...)"
LinePauseOnly ==
    <<"*","P","A","R",":"," ","(",".",".",".",")">>

\* " *PAR: "
LineBlank ==
    <<" ","*","P","A","R",":"," ">>

\* "\t*INV: Dog dog (laughs) ."
LineDogs ==
    <<"\t","*","I","N","V",":"," ","D","o","g"," ","d","o","g"," ","(","l",
      "a","u","g","h","s",")"," ",".">>

\* "%mor: (.) um"
LineMor ==
    <<"%","m","o","r",":"," ","(",".",")"," ","u","m">>

LineSet == {LineKeys, LineOkay, LinePauseOnly, LineBlank, LineDogs, LineMor}

\* the sequences of at most n elements of S
SeqsUpTo(S, n) == UNION {[1..k -> S] : k \in 0..n}

RECURSIVE TextOf(_)
\* the text of a file whose lines are ls, each ended by a newline
TextOf(ls) == IF ls = <<>> THEN <<>> ELSE Head(ls) \o <<"\n">> \o TextOf(Tail(ls))

\* ------------------------------------------------------------------ state
VARIABLES
    prog,          \* the script that runs: "get_stats" or "extract_par"
    recursive,     \* get_stats: not args.no_recursive (read for a folder only)
    root,          \* the resolved input path
    rootKind,      \* "missing", "file" or "dir"
    files,         \* the files under root: path -> text
    outDirExists,  \* whether the output folder exists
    outDirMade,    \* whether this run created the output folder
    outFiles,      \* the files this run wrote: name -> content
    pc,            \* position of main
    err,           \* the exception that ended the run, NoError if none
    cha_files,     \* main: the enumerated transcript files
    fi,            \* main: index of the current file in cha_files
    si,            \* get_stats.main: index of the current role in SPEAKERS
    lines,         \* compute_stats_for_speaker: lines
    li,            \* compute_stats_for_speaker: index of the next line
    stats,         \* compute_stats_for_speaker: stats
    vocab,         \* compute_stats_for_speaker: vocab
    toks,          \* compute_stats_for_speaker: toks of the last line
    all_rows,      \* get_stats.main: all_rows
    raw_line,      \* tokenizer run: the raw utterance
    tk,            \* tokenizer run: clean_and_tokenize(raw_line)
    retk,          \* tokenizer run: the tokens of the joined tokens
    tpc            \* tokenizer run: position

progVars == <<prog, recursive, root, rootKind, files, outDirExists, outDirMade,
              outFiles, pc, err, cha_files, fi, si, lines, li, stats, vocab,
              toks, all_rows>>

tokVars == <<raw_line, tk, retk, tpc>>

vars == <<progVars, tokVars>>

NoError == [type |-> "none"]

NoStats == SpeakerStats(<<>>, "")

\* the tokenizer run is idle while a script runs, and the other way round
TokIdle == raw_line = <<>> /\ tk = <<>> /\ retk = <<>> /\ tpc = "idle"

ProgIdle ==
    /\ prog = "none" /\ recursive = TRUE /\ root = DATASET
    /\ rootKind = "missing" /\ files = <<>>
    /\ outDirExists = FALSE /\ outDirMade = FALSE /\ outFiles = <<>>
    /\ pc = "idle" /\ err = NoError /\ cha_files = <<>> /\ fi = 1 /\ si = 1
    /\ lines = <<>> /\ li = 1 /\ stats = NoStats /\ vocab = {} /\ toks = <<>>
    /\ all_rows = <<>>

\* the locals of main before its first statement
MainStart ==
    /\ outDirMade = FALSE /\ outFiles = <<>>
    /\ pc = "start" /\ err = NoError /\ cha_files = <<>> /\ fi = 1 /\ si = 1
    /\ lines = <<>> /\ li = 1 /\ stats = NoStats /\ vocab = {} /\ toks = <<>>
    /\ all_rows = <<>>

\* the lines of ls that owner gives to file p, in order, as a text
OwnedText(ls, owner, p) ==
    LET idx == {i \in 1..Len(ls) : owner[i] = p}
        RECURSIVE Pick(_)
        Pick(i) == IF i > Len(ls) THEN <<>>
                   ELSE (IF i \in idx THEN <<ls[i]>> ELSE <<>>) \o Pick(i + 1)
    IN  TextOf(Pick(1))

\* The input path does not exist; or is one file of at most MaxLines lines;
\* or is a folder whose transcripts hold at most MaxLines lines together
\* (n.txt, which no glob matches and no run reads, is empty and stands
\* beside empty transcripts only).
InitFs ==
    \/ /\ rootKind = "missing" /\ root = DATASET /\ files = <<>>
    \/ /\ rootKind = "file"
       /\ root \in FileNames
       /\ \E ls \in SeqsUpTo(LineSet, MaxLines) : files = (root :> TextOf(ls))
    \/ /\ rootKind = "dir" /\ root = DATASET
       /\ \E S \in SUBSET DirNames :
          \E ls \in SeqsUpTo(LineSet, MaxLines) :
             /\ (ls # <<>>) => (S \ {N_TXT} # {} /\ N_TXT \notin S)
             /\ \E owner \in [1..Len(ls) -> S \ {N_TXT}] :
                   files = [p \in S |-> OwnedText(ls, owner, p)]

Init ==
    /\ prog \in {"get_stats", "extract_par"}
    /\ InitFs
    /\ recursive \in (IF prog = "get_stats" /\ rootKind = "dir"
                       THEN BOOLEAN ELSE {TRUE})
    /\ outDirExists \in BOOLEAN
    /\ MainStart
    /\ TokIdle

\* ------------------------------------------------------ get_stats.main
\* an exception of the given type whose message is text followed by path
Raise(type, text, path) == [type |-> type, msg |-> <<text, path>>]

\* the outcome of a call: a returned value, or a raised exception
Returned(v) == [exc |-> NoError, val |-> v]

Raised(e) == [exc |-> e, val |-> <<>>]

\* get_stats.iter_cha_files(root, recursive)
gs_iter_cha_files(path, kind, S, rec) ==
    IF kind = "file" THEN Returned(<<path>>)
    ELSE IF kind = "dir" THEN Returned(sorted(glob_cha(S, rec)))
    ELSE Raised(Raise("FileNotFoundError", "Path not found: ", path))

\* line 172: cha_files = iter_cha_files(root, recursive=...)
GsIterChaFiles ==
    /\ prog = "get_stats" /\ pc = "start"
    /\ LET r == gs_iter_cha_files(root, rootKind, DOMAIN files, recursive)
       IN  /\ err' = r.exc
           /\ cha_files' = r.val
           /\ pc' = IF r.exc = NoError THEN "files" ELSE "end"
    /\ UNCHANGED <<prog, recursive, root, rootKind, files, outDirExists,
                   outDirMade, outFiles, fi, si, lines, li, stats, vocab,
                   toks, all_rows>>
    /\ UNCHANGED tokVars

\* lines 96-101: compute_stats_for_speaker up to its loop
GsStartSpeaker ==
    /\ prog = "get_stats" /\ pc = "files" /\ fi <= Len(cha_files)
    /\ LET fp == cha_files[fi]
           raw == files[fp]
       IN  /\ lines' = extract_main_tier_lines(raw, SPEAKERS[si])
           /\ stats' = SpeakerStats(PathName(fp), SPEAKERS[si])
    /\ vocab' = {}
    /\ li' = 1
    /\ toks' = <<>>
    /\ pc' = "lines"
    /\ UNCHANGED <<prog, recursive, root, rootKind, files, outDirExists,
                   outDirMade, outFiles, err, cha_files, fi, si, all_rows>>
    /\ UNCHANGED tokVars

\* lines 103-118: one iteration of the loop over lines
GsProcessLine ==
    /\ prog = "get_stats" /\ pc = "lines" /\ li <= Len(lines)
    /\ LET r == loop_body(stats, vocab, lines[li])
       IN  /\ stats' = r.stats
           /\ vocab' = r.vocab
           /\ toks' = r.toks
    /\ li' = li + 1
    /\ UNCHANGED <<prog, recursive, root, rootKind, files, outDirExists,
                   outDirMade, outFiles, pc, err, cha_files, fi, si, lines,
                   all_rows>>
    /\ UNCHANGED tokVars

\* lines 120-121 and 176-177: the record is completed, returned and appended
GsReturnStats ==
    /\ prog = "get_stats" /\ pc = "lines" /\ li > Len(lines)
    /\ stats' = [stats EXCEPT !.types = Cardinality(vocab)]
    /\ all_rows' = Append(all_rows, stats')
    /\ IF si < Len(SPEAKERS)
       THEN si' = si + 1 /\ fi' = fi
       ELSE si' = 1 /\ fi' = fi + 1
    /\ pc' = "files"
    /\ UNCHANGED <<prog, recursive, root, rootKind, files, outDirExists,
                   outDirMade, outFiles, err, cha_files, lines, li, vocab,
                   toks>>
    /\ UNCHANGED tokVars

CSV_NAME == <<"a3_table", ".csv">>

\* lines 179-185: write_csv(all_rows, out_path) and the two prints
GsWriteCsv ==
    /\ prog = "get_stats" /\ pc = "files" /\ fi > Len(cha_files)
    /\ outDirExists' = TRUE
    /\ outDirMade' = ~outDirExists
    /\ LET good == GoodPrefix(all_rows)
       IN  /\ outFiles' = (CSV_NAME :>
                  (<<CSV_HEADER>> \o [i \in 1..Len(good) |-> CsvRow(good[i])]))
           /\ err' = IF good = all_rows THEN NoError
                     ELSE [type |-> ZeroDivisionError, msg |-> <<>>]
    /\ pc' = "end"
    /\ UNCHANGED <<prog, recursive, root, rootKind, files, cha_files, fi, si,
                   lines, li, stats, vocab, toks, all_rows>>
    /\ UNCHANGED tokVars

\* ---------------------------------------------------- extract_par.main
\* extract_par.iter_cha_files(path)
ep_iter_cha_files(path, kind, S) ==
    IF kind = "file"
    THEN IF suffix_lower(path) # ".cha"
         THEN Raised(Raise("ValueError", "Expected a .cha file, got: ", path))
         ELSE Returned(<<path>>)
    ELSE IF kind = "dir"
    THEN IF glob_cha(S, FALSE) = {}
         THEN Raised(Raise("ValueError", "No .cha files found in directory: ", path))
         ELSE Returned(sorted(glob_cha(S, FALSE)))
    ELSE Raised(Raise("FileNotFoundError", "Path not found: ", path))

\* lines 56-58: out_dir.mkdir(parents=True, exist_ok=True)
EpMkdir ==
    /\ prog = "extract_par" /\ pc = "start"
    /\ outDirExists' = TRUE
    /\ outDirMade' = ~outDirExists
    /\ pc' = "iter"
    /\ UNCHANGED <<prog, recursive, root, rootKind, files, outFiles, err,
                   cha_files, fi, si, lines, li, stats, vocab, toks, all_rows>>
    /\ UNCHANGED tokVars

\* line 60: cha_files = iter_cha_files(in_path)
EpIterChaFiles ==
    /\ prog = "extract_par" /\ pc = "iter"
    /\ LET r == ep_iter_cha_files(root, rootKind, DOMAIN files)
       IN  /\ err' = r.exc
           /\ cha_files' = r.val
           /\ pc' = IF r.exc = NoError THEN "files" ELSE "end"
    /\ UNCHANGED <<prog, recursive, root, rootKind, files, outDirExists,
                   outDirMade, outFiles, fi, si, lines, li, stats, vocab,
                   toks, all_rows>>
    /\ UNCHANGED tokVars

\* lines 62-71: one iteration of the loop over cha_files
EpExtractFile ==
    /\ prog = "extract_par" /\ pc = "files" /\ fi <= Len(cha_files)
    /\ LET cha == cha_files[fi]
           par_lines == extract_par_lines(files[cha])
           out_path == <<cha.stem, ".par.txt">>
       IN  /\ lines' = par_lines
           /\ outFiles' = [n \in DOMAIN outFiles \cup {out_path} |->
                             IF n = out_path THEN ParText(par_lines)
                             ELSE outFiles[n]]
    /\ fi' = fi + 1
    /\ UNCHANGED <<prog, recursive, root, rootKind, files, outDirExists,
                   outDirMade, pc, err, cha_files, si, li, stats, vocab, toks,
                   all_rows>>
    /\ UNCHANGED tokVars

\* line 73: print("Done.")
EpDone ==
    /\ prog = "extract_par" /\ pc = "files" /\ fi > Len(cha_files)
    /\ pc' = "end"
    /\ UNCHANGED <<prog, recursive, root, rootKind, files, outDirExists,
                   outDirMade, outFiles, err, cha_files, fi, si, lines, li,
                   stats, vocab, toks, all_rows>>
    /\ UNCHANGED tokVars

Next ==
    \/ GsIterChaFiles
    \/ GsStartSpeaker
    \/ GsProcessLine
    \/ GsReturnStats
    \/ GsWriteCsv
    \/ EpMkdir
    \/ EpIterChaFiles
    \/ EpExtractFile
    \/ EpDone

Spec == Init /\ [][Next]_vars

\* ------------------------------------------------------- tokenizer runs
\* the characters raw utterances are drawn from: the two parentheses, a
\* punctuation mark, two kinds of whitespace, a lowercase and an uppercase
\* letter, the apostrophe
TokAlphabet == {"(", ")", ".", " ", "\t", "a", "B", "'"}

InitTok ==
    /\ ProgIdle
    /\ raw_line \in SeqsUpTo(TokAlphabet, MaxLen)
    /\ tk = <<>> /\ retk = <<>> /\ tpc = "start"

\* toks = clean_and_tokenize(raw_line)
Tokenize ==
    /\ tpc = "start"
    /\ tk' = clean_and_tokenize(raw_line)
    /\ tpc' = "tokenized"
    /\ UNCHANGED <<raw_line, retk>>
    /\ UNCHANGED progVars

\* clean_and_tokenize(" ".join(toks))
Retokenize ==
    /\ tpc = "tokenized"
    /\ retk' = clean_and_tokenize(join(<<" ">>, tk))
    /\ tpc' = "done"
    /\ UNCHANGED <<raw_line, tk>>
    /\ UNCHANGED progVars

NextTok == Tokenize \/ Retokenize

SpecTok == InitTok /\ [][NextTok]_vars

\* ================================================================ claims
\* the rows of the run that are complete, and the record being built
Records == {all_rows[j] : j \in 1..Len(all_rows)} \cup {stats}

\* the file whose record all_rows[j] is, when rows come two per file
FileOfRow(j) == cha_files[(j + 1) \div 2]

\* ---- C1
\* "uh","i","lost","my","keys","yesterday"
KeysTokensWithUh ==
    << <<"u","h">>, <<"i">>, <<"l","o","s","t">>, <<"m","y">>,
       <<"k","e","y","s">>, <<"y","e","s","t","e","r","d","a","y">> >>

\* "i","lost","my","keys","yesterday"
KeysTokensNoUh == Tail(KeysTokensWithUh)

\* compute_stats_for_speaker(fp, "PAR") has just returned stats for a
\* transcript whose only line is LineKeys
KeysCase ==
    /\ prog = "get_stats" /\ pc = "files" /\ si = 2 /\ fi <= Len(cha_files)
    /\ files[cha_files[fi]] = TextOf(<<LineKeys>>)
    /\ stats.speaker = "PAR"

\* C1 as stated: the line `*PAR: uh (..) I (.) lost my keys yesterday .`
\* gives role PAR the tokens i lost my keys yesterday (5 tokens, 5 distinct),
\* one filled pause, 2 pause markers, 1 utterance.
C1_FiveTokens ==
    KeysCase =>
        /\ toks = KeysTokensNoUh
        /\ stats.tokens = 5 /\ stats.types = 5
        /\ stats.filled_pauses = 1 /\ stats.pause_markers = 2
        /\ stats.utterances = 1

\* C1 amended: the line `*PAR: uh (..) I (.) lost my keys yesterday .` gives
\* role PAR the tokens uh i lost my keys yesterday (6 tokens, 6 distinct:
\* "uh" is a token and is also counted as the one filled pause), 2 pause
\* markers, 1 utterance.
C1_SixTokens ==
    KeysCase =>
        /\ toks = KeysTokensWithUh
        /\ stats.tokens = 6 /\ stats.types = 6
        /\ stats.filled_pauses = 1 /\ stats.pause_markers = 2
        /\ stats.utterances = 1

C1_Witness == KeysCase /\ all_rows[Len(all_rows)] = stats /\ stats.utterances = 1

\* ---- C2
\* the number of lines of text whose left-trimmed start is *PAR: or *INV:
MatchingLineCount(text) ==
    LET ls == splitlines(text)
    IN  Cardinality({i \in 1..Len(ls) :
            \/ startswith(lstrip(ls[i]), <<"*","P","A","R",":">>)
            \/ startswith(lstrip(ls[i]), <<"*","I","N","V",":">>)})

C2_Sum ==
    prog = "get_stats" =>
        \A k \in 1..(Len(all_rows) \div 2) :
            all_rows[2 * k - 1].utterances + all_rows[2 * k].utterances
                = MatchingLineCount(files[cha_files[k]])

C2_EmptyLineStep ==
    (/\ prog = "get_stats" /\ pc = "lines" /\ li <= Len(lines)
     /\ li' = li + 1
     /\ clean_and_tokenize(lines[li]) = <<>>)
    => /\ stats'.utterances = stats.utterances + 1
       /\ stats'.tokens = stats.tokens

\* C2: for every transcript the utterance counts of its PAR and INV records
\* add up to the number of lines whose left-trimmed start is *PAR: or *INV:,
\* and a matching line with an empty tokenization adds 1 to the utterance
\* count and 0 to the token count.
C2_UtterancesCountEveryMatchingLine == []C2_Sum /\ [][C2_EmptyLineStep]_vars

\* both records of a transcript with two matching lines are complete, one of
\* them with an utterance and no token
C2_Witness ==
    /\ prog = "get_stats" /\ pc = "end" /\ Len(all_rows) >= 2
    /\ all_rows[1].utterances + all_rows[2].utterances = 2
    /\ all_rows[1].utterances >= 1 /\ all_rows[1].tokens = 0

\* ---- C3
\* C3: on every record, mean_utt_len is 0.0 when utterances is 0, and ttr,
\* filled_pauses_per_100 and pause_markers_per_100 are 0.0 when tokens is 0;
\* none of the four divides by zero, and write_csv never fails on it.
C3_MetricsNeverDivideByZero ==
    /\ err.type # ZeroDivisionError
    /\ \A r \in Records :
        /\ ZeroDivisionError \notin {mean_utt_len(r), ttr(r),
                                     filled_pauses_per_100(r),
                                     pause_markers_per_100(r)}
        /\ (r.utterances = 0) => (mean_utt_len(r) = Zero)
        /\ (r.tokens = 0) => /\ ttr(r) = Zero
                             /\ filled_pauses_per_100(r) = Zero
                             /\ pause_markers_per_100(r) = Zero

\* the table was written with a record of no utterance, and with a record of
\* no token that has an utterance and a pause marker
C3_Witness ==
    /\ prog = "get_stats" /\ pc = "end" /\ CSV_NAME \in DOMAIN outFiles
    /\ \E r \in Records : r.speaker # "" /\ r.utterances = 0
    /\ \E r \in Records : r.tokens = 0 /\ r.utterances > 0 /\ r.pause_markers > 0

\* ---- C7
\* the positions of line where "(" is followed by one or more dots and ")"
DotMarkerStarts(line) ==
    {i \in 1..Len(line) :
        /\ line[i] = "("
        /\ \E d \in 1..Len(line) :
              /\ i + d + 1 <= Len(line)
              /\ \A j \in (i + 1)..(i + d) : line[j] = "."
              /\ line[i + d + 1] = ")"}

RECURSIVE MarkerSum(_)
MarkerSum(ls) ==
    IF ls = <<>> THEN 0
    ELSE Cardinality(DotMarkerStarts(Head(ls))) + MarkerSum(Tail(ls))

\* "(.) um (..) okay"
OkayContent ==
    <<"(",".",")"," ","u","m"," ","(",".",".",")"," ","o","k","a","y">>

\* C7: pause_markers is the sum over the speaker's extracted raw lines of the
\* occurrences of "one or more dots in parentheses" in the raw line, after
\* every line of the loop and in the returned record, lines with an empty
\* tokenization included; "(.) um (..) okay" counts 2.
C7_PauseMarkersCountedOnRawLines ==
    prog = "get_stats" =>
        /\ (pc = "lines") =>
              stats.pause_markers = MarkerSum(SubSeq(lines, 1, li - 1))
        /\ \A j \in 1..Len(all_rows) :
              all_rows[j].pause_markers =
                  MarkerSum(extract_main_tier_lines(files[FileOfRow(j)],
                                                    all_rows[j].speaker))
        /\ \A i \in 1..Len(lines) :
              (lines[i] = OkayContent) => (count_pause_markers(lines[i]) = 2)

\* the loop has passed the line "(.) um (..) okay" and a record of no token
\* with a counted marker is complete
C7_Witness ==
    /\ prog = "get_stats" /\ pc = "lines" /\ li = 2
    /\ lines[1] = OkayContent /\ stats.pause_markers = 2
    /\ \E j \in 1..Len(all_rows) :
          all_rows[j].tokens = 0 /\ all_rows[j].pause_markers = 1

\* ---- C9
\* C9: the rows are two per enumerated file, in the order of the files, the
\* PAR row then the INV row; a run that ends without error has 2n rows for n
\* files and writes them in that order after the header.
C9_TwoRowsPerFileInOrder ==
    prog = "get_stats" =>
        /\ \A j \in 1..Len(all_rows) :
              /\ (j + 1) \div 2 <= Len(cha_files)
              /\ all_rows[j].file = PathName(FileOfRow(j))
              /\ all_rows[j].speaker = (IF j % 2 = 1 THEN "PAR" ELSE "INV")
        /\ (pc = "end" /\ err = NoError) =>
              /\ Len(all_rows) = 2 * Len(cha_files)
              /\ Len(outFiles[CSV_NAME]) = 2 * Len(cha_files) + 1
              /\ \A j \in 1..Len(all_rows) :
                    /\ outFiles[CSV_NAME][j + 1][1] = all_rows[j].file
                    /\ outFiles[CSV_NAME][j + 1][2] = all_rows[j].speaker

\* a run over two files has written its four rows
C9_Witness ==
    /\ prog = "get_stats" /\ pc = "end" /\ Len(cha_files) = 2
    /\ Len(outFiles[CSV_NAME]) = 5

\* ---- C10
C10_Bounds ==
    prog = "get_stats" =>
        /\ Cardinality(vocab) <= stats.tokens
        /\ \A r \in Records :
              /\ r.utterances >= 0 /\ r.tokens >= 0 /\ r.types >= 0
              /\ r.filled_pauses >= 0 /\ r.pause_markers >= 0
              /\ r.types <= r.tokens
              /\ r.filled_pauses <= r.tokens
              /\ (r.tokens = 0) => (r.types = 0 /\ r.filled_pauses = 0)
              /\ ttr(r)[1] <= ttr(r)[2]
              /\ filled_pauses_per_100(r)[1] <= 100 * filled_pauses_per_100(r)[2]

C10_Monotone ==
    (prog = "get_stats" /\ pc = "lines") =>
        /\ stats'.utterances >= stats.utterances
        /\ stats'.tokens >= stats.tokens
        /\ stats'.types >= stats.types
        /\ stats'.filled_pauses >= stats.filled_pauses
        /\ stats'.pause_markers >= stats.pause_markers
        /\ vocab \subseteq vocab'

\* C10: after every line of the loop the vocabulary has at most stats.tokens
\* elements and filled_pauses is at most tokens; the counters are never
\* negative and never decrease during a call; every returned record has
\* types <= tokens and filled_pauses <= tokens (so the type-token ratio is in
\* [0, 1] and the filled-pause rate in [0, 100]), both 0 when tokens is 0.
C10_VocabAndFillersWithinTokens == []C10_Bounds /\ [][C10_Monotone]_vars

\* a complete record with a repeated token and a filled pause
C10_Witness ==
    /\ prog = "get_stats" /\ pc = "end"
    /\ \E j \in 1..Len(all_rows) :
          /\ 0 < all_rows[j].types /\ all_rows[j].types < all_rows[j].tokens
          /\ all_rows[j].filled_pauses > 0

\* ---- C5
\* the input path is a folder in which the run's glob matches nothing
NoMatchingFiles ==
    /\ rootKind = "dir"
    /\ glob_cha(DOMAIN files, (prog = "get_stats" /\ recursive)) = {}

\* C5: when the input folder holds no matching .cha file the run ends in a
\* failure and writes nothing: no output file, no output folder.
C5_EmptyFolderFailsAndWritesNothing ==
    NoMatchingFiles =>
        /\ outFiles = <<>>
        /\ ~outDirMade
        /\ (pc = "end") => (err # NoError)

\* ---- C6
\* the input path does not exist, or is one file whose extension is not .cha
InvalidPath ==
    \/ rootKind = "missing"
    \/ rootKind = "file" /\ suffix_lower(root) # ".cha"

\* C6: when the input path does not exist or is a file that is not a .cha
\* file the run ends in a failure whose message names the path, and produces
\* no output: no row, no output file, no output folder.
C6_InvalidPathFailsAndWritesNothing ==
    InvalidPath =>
        /\ outFiles = <<>>
        /\ ~outDirMade
        /\ all_rows = <<>>
        /\ (pc = "end") => (err # NoError /\ err.msg[2] = root)

\* ---- C4
RECURSIVE Depths(_, _)
\* the nesting depth after each character of s, starting from depth d
Depths(s, d) ==
    IF s = <<>> THEN <<>>
    ELSE LET e == IF Head(s) = "(" THEN d + 1
                  ELSE IF Head(s) = ")" THEN d - 1 ELSE d
         IN  <<e>> \o Depths(Tail(s), e)

\* the parentheses of s are well nested
Balanced(s) ==
    /\ \A i \in 1..Len(s) : Depths(s, 0)[i] >= 0
    /\ (s # <<>>) => (Depths(s, 0)[Len(s)] = 0)

\* raw_line is "(" + inner + ")"
Enclosed == Len(raw_line) >= 2 /\ Head(raw_line) = "(" /\ raw_line[Len(raw_line)] = ")"

Inner == SubSeq(raw_line, 2, Len(raw_line) - 1)

\* C4 as stated: an utterance that is wholly enclosed in parentheses, with
\* any content inside, nested parentheses included, has no token.
C4_EnclosedNestedIsEmpty ==
    (tpc # "start" /\ Enclosed /\ Balanced(Inner)) => (tk = <<>>)

\* C4 amended: an utterance that is wholly enclosed in parentheses, with any
\* content inside that has no closing parenthesis, has no token.
C4_EnclosedIsEmpty ==
    (tpc # "start" /\ Enclosed /\ ")" \notin Range(Inner)) => (tk = <<>>)

\* "((a.)" was tokenized
C4_Witness ==
    /\ tpc = "done" /\ raw_line = <<"(", "(", "a", ".", ")">> /\ tk = <<>>

\* ---- C8
\* C8: tokenizing the space-joined tokens of any raw utterance gives the same
\* tokens, and every token is non-empty and made of lowercase letters,
\* digits and apostrophes only.
C8_TokenizeIsIdempotent ==
    /\ (tpc = "done") => (retk = tk)
    /\ (tpc # "start") =>
          \A i \in 1..Len(tk) :
              /\ tk[i] # <<>>
              /\ Range(tk[i]) \subseteq (LowerLetters \cup Digits \cup {"'"})

\* "B\ta'" was tokenized to b, a' and tokenized again
C8_Witness ==
    /\ tpc = "done" /\ raw_line = <<"B", "\t", "a", "'">>
    /\ tk = << <<"b">>, <<"a", "'">> >> /\ retk = tk

====
